---- MODULE Spec2Model ----
(***************************************************************************)
(* The TradingView webhook relay of src/main.py: receive a body, normalize *)
(* it, ask the model service for a risk advisory, append a row to the      *)
(* signals table, forward a WhatsApp summary and answer the caller.        *)
(*                                                                         *)
(* Values.  A JSON / Python value is a tagged record:                      *)
(*   [t |-> "null"]            None / null                                 *)
(*   [t |-> "bool", b |-> _]   True / False                                *)
(*   [t |-> "num",  n |-> _]   a number, held in tenths (0.9 is 9)         *)
(*   [t |-> "str",  s |-> _]   a string                                    *)
(*   [t |-> "list", l |-> _]   a list (sequence of values)                 *)
(*   [t |-> "obj",  o |-> _]   a dict: sequence of <<key, value>> pairs in *)
(*                             insertion order, keys unique                *)
(* Text.  A text (request body, model output, serialized JSON) is a        *)
(* sequence of lexemes: whitespace, an undecodable byte, a punctuation     *)
(* mark, a scalar literal, or a bare word that is no JSON token.           *)
(***************************************************************************)
EXTENDS Integers, Sequences, FiniteSets, TLC

VARIABLES
    client,     \* main.py:19   OpenAI client configured (OPENAI_API_KEY set)
    whatsapp,   \* main.py:108  all four Twilio/WhatsApp settings present
    req,        \* per request: the locals of handle_webhook (resp: what the
                \* completion call gave; rowid: the row it inserted) and its position
    db,         \* rows of the signals table, in insertion order
    outbox,     \* messages accepted by the messaging provider
    loop,       \* request whose synchronous call occupies the event loop (0: free)
    clock       \* source of datetime.utcnow()

vars == <<client, whatsapp, req, db, outbox, loop, clock>>

\* ------------------------------------------------------------------ bounds

\* Number of webhook requests in one behaviour.
MaxRequests == 2

\* Longest run of whitespace before and after a request body.
MaxPad == 1

Req == 1..MaxRequests

\* ------------------------------------------------------------------ values

JNull == [t |-> "null"]
JBool(b) == [t |-> "bool", b |-> b]
JNum(n) == [t |-> "num", n |-> n]
JStr(s) == [t |-> "str", s |-> s]
JList(l) == [t |-> "list", l |-> l]
JObj(o) == [t |-> "obj", o |-> o]

\* Python truthiness: `v or x` takes x exactly when v is falsy.
Falsy(v) ==
    \/ v.t = "null"
    \/ v.t = "bool" /\ ~v.b
    \/ v.t = "num" /\ v.n = 0
    \/ v.t = "str" /\ v.s = ""
    \/ v.t = "list" /\ v.l = <<>>
    \/ v.t = "obj" /\ v.o = <<>>

\* dict: key in d
HasKey(d, k) == \E i \in DOMAIN d.o : d.o[i][1] = k

\* dict.get(k, dflt)
Get(d, k, dflt) ==
    IF HasKey(d, k)
    THEN d.o[CHOOSE i \in DOMAIN d.o : d.o[i][1] = k][2]
    ELSE dflt

\* d[k] = v: replaces the value in place, or appends a new key at the end.
SetItem(d, k, v) ==
    IF HasKey(d, k)
    THEN JObj([i \in DOMAIN d.o |-> IF d.o[i][1] = k THEN <<k, v>> ELSE d.o[i]])
    ELSE JObj(Append(d.o, <<k, v>>))

\* dict.setdefault(k, v): a key already present keeps its value, whatever it is.
SetDefault(d, k, v) == IF HasKey(d, k) THEN d ELSE JObj(Append(d.o, <<k, v>>))

\* Results of operations that may raise.
Ok(v) == [ok |-> TRUE, val |-> v]
Raise(e) == [ok |-> FALSE, exc |-> e]

\* ------------------------------------------------------------------ text

WS == [k |-> "ws"]
BAD == [k |-> "bad"]
P(c) == [k |-> "p", c |-> c]
V(v) == [k |-> "v", v |-> v]
W(s) == [k |-> "word", s |-> s]

IsWs(x) == x.k = "ws"
IsBad(x) == x.k = "bad"
NotWs(x) == ~IsWs(x)
NotBad(x) == ~IsBad(x)

\* bytes.decode("utf-8", errors="ignore"): undecodable bytes are dropped.
decode(raw) == SelectSeq(raw, NotBad)

RECURSIVE lstrip(_)
lstrip(s) == IF s # <<>> /\ IsWs(Head(s)) THEN lstrip(Tail(s)) ELSE s

RECURSIVE rstrip(_)
rstrip(s) ==
    IF s # <<>> /\ IsWs(s[Len(s)]) THEN rstrip(SubSeq(s, 1, Len(s) - 1)) ELSE s

\* Mutant of strip: trailing whitespace is kept.
strip_LeadingOnly(s) == lstrip(s)

\* str.strip(): leading and trailing whitespace removed, the inside kept.
strip(s) == rstrip(lstrip(s))

\* str.upper() on the strings of the model's universe.
upper(s) ==
    CASE s = "long" -> "LONG"
      [] s = "Long" -> "LONG"
      [] s = "short" -> "SHORT"
      [] s = "Short" -> "SHORT"
      [] s = "buy" -> "BUY"
      [] OTHER -> s

\* ------------------------------------------------------------------ JSON

IsP(x, c) == x.k = "p" /\ x.c = c

Fail == [ok |-> FALSE]
Parsed(v, rest) == [ok |-> TRUE, val |-> v, rest |-> rest]

RECURSIVE ParseValue(_)
RECURSIVE ParseElems(_, _)
RECURSIVE ParseMembers(_, _)

\* One JSON value at the head of s; what follows it is left in rest.
ParseValue(s) ==
    IF s = <<>> THEN Fail
    ELSE IF Head(s).k = "v" THEN Parsed(Head(s).v, Tail(s))
    ELSE IF IsP(Head(s), "[") THEN
        IF Len(s) >= 2 /\ IsP(s[2], "]")
        THEN Parsed(JList(<<>>), SubSeq(s, 3, Len(s)))
        ELSE ParseElems(Tail(s), <<>>)
    ELSE IF IsP(Head(s), "{") THEN
        IF Len(s) >= 2 /\ IsP(s[2], "}")
        THEN Parsed(JObj(<<>>), SubSeq(s, 3, Len(s)))
        ELSE ParseMembers(Tail(s), JObj(<<>>))
    ELSE Fail

\* The elements of an array after "[": value ("," value)* "]".
ParseElems(s, acc) ==
    LET r == ParseValue(s) IN
    IF ~r.ok THEN Fail
    ELSE IF r.rest = <<>> THEN Fail
    ELSE IF IsP(Head(r.rest), "]")
        THEN Parsed(JList(Append(acc, r.val)), Tail(r.rest))
    ELSE IF IsP(Head(r.rest), ",")
        THEN ParseElems(Tail(r.rest), Append(acc, r.val))
    ELSE Fail

\* The members of an object after "{": string ":" value ("," ...)* "}".
\* A repeated key keeps its first position and takes the last value.
ParseMembers(s, acc) ==
    IF Len(s) < 2 THEN Fail
    ELSE IF Head(s).k # "v" THEN Fail
    ELSE IF Head(s).v.t # "str" THEN Fail
    ELSE IF ~IsP(s[2], ":") THEN Fail
    ELSE
        LET r == ParseValue(SubSeq(s, 3, Len(s))) IN
        IF ~r.ok THEN Fail
        ELSE IF r.rest = <<>> THEN Fail
        ELSE IF IsP(Head(r.rest), "}")
            THEN Parsed(SetItem(acc, Head(s).v.s, r.val), Tail(r.rest))
        ELSE IF IsP(Head(r.rest), ",")
            THEN ParseMembers(Tail(r.rest), SetItem(acc, Head(s).v.s, r.val))
        ELSE Fail

\* json.loads(text): whitespace between tokens is skipped; the whole text
\* must be one value.
json_loads(text) ==
    LET r == ParseValue(SelectSeq(text, NotWs)) IN
    IF r.ok THEN (IF r.rest = <<>> THEN Ok(r.val) ELSE Raise("JSONDecodeError"))
    ELSE Raise("JSONDecodeError")

\* safe_json_loads: None on any exception (and for the JSON text `null`).
safe_json_loads(text) ==
    LET r == json_loads(text) IN IF r.ok THEN r.val ELSE JNull

RECURSIVE json_dumps(_)
RECURSIVE DumpElems(_)
RECURSIVE DumpMembers(_)

DumpElems(l) ==
    IF l = <<>> THEN <<>>
    ELSE IF Len(l) = 1 THEN json_dumps(l[1])
    ELSE json_dumps(l[1]) \o <<P(","), WS>> \o DumpElems(Tail(l))

DumpMembers(o) ==
    IF o = <<>> THEN <<>>
    ELSE
        LET m == <<V(JStr(o[1][1])), P(":"), WS>> \o json_dumps(o[1][2]) IN
        IF Len(o) = 1 THEN m ELSE m \o <<P(","), WS>> \o DumpMembers(Tail(o))

\* json.dumps(v, ensure_ascii=False) with the default ", " and ": " separators.
json_dumps(v) ==
    IF v.t = "list" THEN <<P("[")>> \o DumpElems(v.l) \o <<P("]")>>
    ELSE IF v.t = "obj" THEN <<P("{")>> \o DumpMembers(v.o) \o <<P("}")>>
    ELSE <<V(v)>>

\* ------------------------------------------------------------------ advisory

\* The reason strings of main.py, in ASCII:
\*   R_NO_KEY    "未配置OPENAI_API_KEY"     R_NON_JSON  "GPT输出非JSON"
\*   R_EXCEPTION "GPT调用异常"              R_MODULE    "风控模块异常"
R_NO_KEY == "OPENAI_API_KEY not configured"
R_NON_JSON == "GPT output is not JSON"
R_EXCEPTION == "GPT call raised"
R_MODULE == "risk module raised"

\* "，建议手动确认趋势与关键位后再决定。"
FallbackAdvice == ", confirm trend and key levels manually before deciding."

\* ["确认4H/1D方向", "确认前高前低/关键位", "确认波动与成交量是否异常"]
FallbackChecklist ==
    JList(<<JStr("confirm 4H/1D direction"),
            JStr("confirm previous high/low and key levels"),
            JStr("confirm volatility and volume are normal")>>)

\* "建议谨慎，等待更清晰的结构确认。"
DefaultMessage == JStr("be cautious, wait for a clearer structure.")

\* ["确认趋势方向", "确认关键位", "确认波动是否异常"]
DefaultChecklist ==
    JList(<<JStr("confirm trend direction"),
            JStr("confirm key levels"),
            JStr("confirm volatility is normal")>>)

\* (payload.get("signal") or "").upper(): only a str has upper().
signal_upper(payload) ==
    LET v == Get(payload, "signal", JNull)
        s == IF Falsy(v) THEN JStr("") ELSE v
    IN IF s.t = "str" THEN Ok(upper(s.s)) ELSE Raise("AttributeError")

default_gpt_fallback(payload, reason) ==
    LET sig == signal_upper(payload) IN
    IF ~sig.ok THEN sig
    ELSE Ok(JObj(<<
        <<"action", JStr("wait")>>,
        <<"direction",
          JStr(IF sig.val = "LONG" THEN "long"
               ELSE IF sig.val = "SHORT" THEN "short" ELSE "long")>>,
        <<"confidence", JNum(0)>>,
        <<"risk_level", JStr("high")>>,
        <<"sl_pct", JNum(9)>>,
        <<"tp_pct", JNum(22)>>,
        <<"message_cn", JStr(reason \o FallbackAdvice)>>,
        <<"checklist", FallbackChecklist>> >>))

\* A completion of client.chat.completions.create: it raises, or it returns
\* message content that is None or a text (NotCalled: no call was made).
Raised == [kind |-> "raise"]
NotCalled == [kind |-> "nocall"]
NoContent == [kind |-> "none"]
Content(text) == [kind |-> "content", text |-> text]

\* The g.setdefault(...) block of call_gpt_risk.  The default of "direction"
\* is an argument, so it is evaluated whether or not the key is present.
sanity_defaults(g, payload) ==
    LET sig == signal_upper(payload) IN
    IF ~sig.ok THEN sig
    ELSE
        LET g1 == SetDefault(g, "action", JStr("wait"))
            g2 == SetDefault(g1, "direction",
                             JStr(IF sig.val = "LONG" THEN "long" ELSE "short"))
            g3 == SetDefault(g2, "confidence", JNum(0))
            g4 == SetDefault(g3, "risk_level", JStr("mid"))
            g5 == SetDefault(g4, "sl_pct", JNum(9))
            g6 == SetDefault(g5, "tp_pct", JNum(25))
            g7 == SetDefault(g6, "message_cn", DefaultMessage)
        IN Ok(SetDefault(g7, "checklist", DefaultChecklist))

\* The try block of call_gpt_risk, given how the completion call ended.
gpt_try(payload, completion) ==
    IF completion.kind = "raise" THEN Raise("APIError")
    ELSE
        LET text == strip(IF completion.kind = "none" THEN <<>> ELSE completion.text)
            g == safe_json_loads(text)
        IN IF g.t # "obj"
           THEN default_gpt_fallback(payload, R_NON_JSON)
           ELSE sanity_defaults(g, payload)

\* call_gpt_risk: Ok(advisory), or the exception that leaves it.
call_gpt_risk(payload, cl, completion) ==
    IF ~cl THEN default_gpt_fallback(payload, R_NO_KEY)
    ELSE
        LET r == gpt_try(payload, completion) IN
        IF r.ok THEN r ELSE default_gpt_fallback(payload, R_EXCEPTION)

\* ------------------------------------------------------------------ notifier

\* The str made of a text; only the fallback key "raw" holds one.
JText(x) == [t |-> "str", x |-> x]

\* " | ".join((g.get("checklist") or [])[:3]): a list or a str can be sliced,
\* and join takes only str items.
checklist_line(g) ==
    LET c == Get(g, "checklist", JNull)
        l == IF Falsy(c) THEN JList(<<>>) ELSE c
    IN IF l.t = "str" THEN Ok([of |-> "chars", items |-> <<l>>])
       ELSE IF l.t # "list" THEN Raise("TypeError")
       ELSE
           LET first3 == SubSeq(l.l, 1, IF Len(l.l) < 3 THEN Len(l.l) ELSE 3) IN
           IF \A i \in DOMAIN first3 : first3[i].t = "str"
           THEN Ok([of |-> "items", items |-> first3])
           ELSE Raise("TypeError")

\* format_whatsapp: the message, as the values it is formatted from.
format_whatsapp(payload, g) ==
    LET line == checklist_line(g) IN
    IF ~line.ok THEN line
    ELSE Ok([sig |-> Get(payload, "signal", Get(payload, "raw", JStr("UNKNOWN"))),
             price |-> Get(payload, "price", Get(payload, "close", JStr(""))),
             action |-> Get(g, "action", JNull),
             risk_level |-> Get(g, "risk_level", JNull),
             confidence |-> Get(g, "confidence", JNull),
             sl_pct |-> Get(g, "sl_pct", JNull),
             tp_pct |-> Get(g, "tp_pct", JNull),
             message_cn |-> Get(g, "message_cn", JNull),
             checklist |-> line.val])

\* ------------------------------------------------------------------ handler

Paths == {"/", "/tv-webhook"}

\* datetime.datetime.utcnow().isoformat()
utcnow_iso(c) == "2024-01-01T00:00:0" \o ToString(c)

NoResponse == [status |-> 0, body |-> JNull]

\* return {"ok": True, "gpt": g}
Acknowledge(g) ==
    [status |-> 200, body |-> JObj(<< <<"ok", JBool(TRUE)>>, <<"gpt", g>> >>)]

\* An exception that leaves handle_webhook: the framework answers 500.
ServerError == [status |-> 500, body |-> JStr("Internal Server Error")]

NewRequest ==
    [pc |-> "idle", path |-> "", raw |-> <<>>, text |-> <<>>, payload |-> JNull,
     resp |-> NotCalled, g |-> JNull, error_text |-> "", dbres |-> "none",
     wares |-> "none", rowid |-> 0, response |-> NoResponse]

\* Lines 213-217: parse the text or wrap it, stamp the receipt time.
normalize(text, now) ==
    LET parsed == safe_json_loads(text)
        payload == IF parsed.t = "null" THEN JObj(<< <<"raw", JText(text)>> >>)
                   ELSE parsed
    IN IF payload.t = "obj"
       THEN Ok(SetDefault(payload, "recv_ts_utc", JStr(utcnow_iso(now))))
       ELSE Raise("AttributeError")

\* Lines 220-224: the advisory of the request, or the exception that the
\* except block itself raises.
Advised(rq, res) ==
    IF res.ok THEN [rq EXCEPT !.g = res.val, !.pc = "persist"]
    ELSE
        LET fb == default_gpt_fallback(rq.payload, R_MODULE) IN
        IF fb.ok
        THEN [rq EXCEPT !.error_text = "Traceback: " \o res.exc,
                        !.g = fb.val, !.pc = "persist"]
        ELSE [rq EXCEPT !.error_text = "Traceback: " \o res.exc,
                        !.pc = "done", !.response = ServerError]

\* A request arrives and runs until its first suspension: to the database
\* connect when no client is configured, else into the synchronous
\* client.chat.completions.create, which keeps the event loop.
Receive(r, p, body) ==
    /\ req[r].pc = "idle"
    /\ \A q \in Req : q < r => req[q].pc # "idle"
    /\ loop = 0
    /\ clock' = clock + 1
    /\ LET text == strip(decode(body))
           n == normalize(text, clock)
           rq == [req[r] EXCEPT !.path = p, !.raw = body, !.text = text]
       IN IF ~n.ok
          THEN /\ req' = [req EXCEPT ![r] =
                            [rq EXCEPT !.pc = "done", !.response = ServerError]]
               /\ loop' = 0
          ELSE IF client
          THEN /\ req' = [req EXCEPT ![r] =
                            [rq EXCEPT !.payload = n.val, !.pc = "advise"]]
               /\ loop' = r
          ELSE /\ req' = [req EXCEPT ![r] =
                            Advised([rq EXCEPT !.payload = n.val],
                                    call_gpt_risk(n.val, FALSE, Raised))]
               /\ loop' = 0
    /\ UNCHANGED <<client, whatsapp, db, outbox>>

\* The completion call of request r ends; the rest of call_gpt_risk and the
\* except block of the handler run, up to the database connect.
GptReturn(r, completion) ==
    /\ req[r].pc = "advise"
    /\ loop = r
    /\ req' = [req EXCEPT ![r] =
                 Advised([req[r] EXCEPT !.resp = completion],
                         call_gpt_risk(req[r].payload, TRUE, completion))]
    /\ loop' = 0
    /\ UNCHANGED <<client, whatsapp, db, outbox, clock>>

\* sqlite3 binds None, numbers and str; a list or a dict is refused.
Bindable(v) == v.t \in {"null", "bool", "num", "str"}

\* The row of the INSERT of lines 229-239.
Row(rq) ==
    [ts_utc |-> Get(rq.payload, "recv_ts_utc", JNull),
     path |-> rq.path,
     raw_text |-> rq.text,
     json_payload |-> json_dumps(rq.payload),
     gpt_json |-> json_dumps(rq.g),
     error |-> rq.error_text]

\* Lines 244-251 up to the provider call: a formatting error is caught and
\* an unconfigured notifier returns at once, and the handler acknowledges;
\* otherwise the request waits for the provider.
Notify(rq) ==
    LET msg == format_whatsapp(rq.payload, rq.g) IN
    IF ~msg.ok
    THEN [rq EXCEPT !.wares = "format_error", !.pc = "done",
                    !.response = Acknowledge(rq.g)]
    ELSE IF ~whatsapp
    THEN [rq EXCEPT !.wares = "skipped", !.pc = "done",
                    !.response = Acknowledge(rq.g)]
    ELSE [rq EXCEPT !.pc = "notify"]

\* The INSERT and commit of request r end (stored is FALSE when the storage
\* fails); the handler goes on to the notifier.
DbReturn(r, stored) ==
    /\ req[r].pc = "persist"
    /\ loop = 0
    /\ LET inserted == stored /\ Bindable(Row(req[r]).ts_utc) IN
       /\ db' = IF inserted THEN Append(db, Row(req[r])) ELSE db
       /\ req' = [req EXCEPT ![r] =
                    Notify([req[r] EXCEPT
                              !.dbres = IF inserted THEN "ok"
                                        ELSE IF stored THEN "bind_error"
                                        ELSE "failed",
                              !.rowid = IF inserted THEN Len(db) + 1 ELSE 0])]
    /\ UNCHANGED <<client, whatsapp, outbox, loop, clock>>

SendOutcomes == {"sent", "rejected", "transport_error"}

\* Mutant of WaReturn: the try/except around the notifier is missing, so a
\* refused or failed provider call leaves the handler as an exception.
WaReturn_Unguarded(r, outcome) ==
    /\ req[r].pc = "notify"
    /\ loop = 0
    /\ outbox' = IF outcome = "sent"
                 THEN Append(outbox, format_whatsapp(req[r].payload, req[r].g).val)
                 ELSE outbox
    /\ req' = [req EXCEPT ![r] =
                 [req[r] EXCEPT !.wares = outcome, !.pc = "done",
                                !.response = IF outcome = "sent"
                                             THEN Acknowledge(req[r].g)
                                             ELSE ServerError]]
    /\ UNCHANGED <<client, whatsapp, db, loop, clock>>

\* The provider call of request r ends: accepted, refused with an error
\* status (raise_for_status raises) or failed in transport; every exception
\* is caught and the handler acknowledges.
WaReturn(r, outcome) ==
    /\ req[r].pc = "notify"
    /\ loop = 0
    /\ outbox' = IF outcome = "sent"
                 THEN Append(outbox, format_whatsapp(req[r].payload, req[r].g).val)
                 ELSE outbox
    /\ req' = [req EXCEPT ![r] =
                 [req[r] EXCEPT !.wares = outcome, !.pc = "done",
                                !.response = Acknowledge(req[r].g)]]
    /\ UNCHANGED <<client, whatsapp, db, loop, clock>>

\* ------------------------------------------------------------------ inputs

Pad(n) == [i \in 1..n |-> WS]

\* {"signal":"LONG","price":65000}
ObjLong ==
    <<P("{"), V(JStr("signal")), P(":"), V(JStr("LONG")), P(","),
      V(JStr("price")), P(":"), V(JNum(650000)), P("}")>>

\* {"signal":"short"}
ObjShort == <<P("{"), V(JStr("signal")), P(":"), V(JStr("short")), P("}")>>

\* {"close":64000}
ObjNoSignal == <<P("{"), V(JStr("close")), P(":"), V(JNum(640000)), P("}")>>

\* {"signal":1}
ObjSignalNumber == <<P("{"), V(JStr("signal")), P(":"), V(JNum(10)), P("}")>>

\* {"signal":"LONG","recv_ts_utc":[1]}
ObjStampList ==
    <<P("{"), V(JStr("signal")), P(":"), V(JStr("LONG")), P(","),
      V(JStr("recv_ts_utc")), P(":"), P("["), V(JNum(10)), P("]"), P("}")>>

\* TV_FORCE_TEST
PlainText == <<W("TV_FORCE_TEST")>>

\* TV_FORCE_TEST followed by a byte that is not UTF-8
TextBadByte == <<W("TV_FORCE_TEST"), BAD>>

\* [1]
ArrayBody == <<P("["), V(JNum(10)), P("]")>>

\* "LONG" (a JSON string)
StringBody == <<V(JStr("LONG"))>>

\* null
NullBody == <<V(JNull)>>

EmptyBody == <<>>

BodyCores ==
    {ObjLong, ObjShort, ObjNoSignal, ObjSignalNumber, ObjStampList, PlainText,
     TextBadByte, ArrayBody, StringBody, NullBody, EmptyBody}

\* Every core with up to MaxPad whitespace before and after it.
AllBodies == {Pad(i) \o c \o Pad(j) : i \in 0..MaxPad, j \in 0..MaxPad, c \in BodyCores}

\* Model outputs.
\* I cannot help with that.
OutProse == <<W("I cannot help with that.")>>

\* ["enter"]
OutArray == <<P("["), V(JStr("enter")), P("]")>>

\* {"action":"enter","direction":"short"}
OutPartial ==
    <<P("{"), V(JStr("action")), P(":"), V(JStr("enter")), P(","),
      V(JStr("direction")), P(":"), V(JStr("short")), P("}")>>

\* {"action":null,"confidence":150,"checklist":7}
OutOffDomain ==
    <<P("{"), V(JStr("action")), P(":"), V(JNull), P(","),
      V(JStr("confidence")), P(":"), V(JNum(1500)), P(","),
      V(JStr("checklist")), P(":"), V(JNum(70)), P("}")>>

\* The full advisory the instructions ask for, with a newline after it.
OutFull ==
    <<P("{"), V(JStr("action")), P(":"), V(JStr("enter")), P(","),
      V(JStr("direction")), P(":"), V(JStr("long")), P(","),
      V(JStr("confidence")), P(":"), V(JNum(700)), P(","),
      V(JStr("risk_level")), P(":"), V(JStr("low")), P(","),
      V(JStr("sl_pct")), P(":"), V(JNum(8)), P(","),
      V(JStr("tp_pct")), P(":"), V(JNum(24)), P(","),
      V(JStr("message_cn")), P(":"), V(JStr("trend agrees")), P(","),
      V(JStr("checklist")), P(":"), P("["), V(JStr("a")), P(","), V(JStr("b")),
      P(","), V(JStr("c")), P(","), V(JStr("d")), P("]"), P("}"), WS>>

AllCompletions ==
    {Raised, NoContent, Content(OutProse), Content(OutArray), Content(OutPartial),
     Content(OutOffDomain), Content(OutFull)}

\* The inputs of the concurrent specification.
Bodies == {ObjLong \o <<WS>>, ArrayBody}
Completions == {Raised, Content(OutPartial), Content(OutOffDomain)}

\* ------------------------------------------------------------------ specifications

\* After startup(): the configuration is whatever the environment holds, the
\* signals table exists and is empty, no request has arrived.
Init ==
    /\ client \in BOOLEAN
    /\ whatsapp \in BOOLEAN
    /\ req = [r \in Req |-> NewRequest]
    /\ db = <<>>
    /\ outbox = <<>>
    /\ loop = 0
    /\ clock = 1

\* Concurrent requests on one event loop.
Next ==
    \E r \in Req :
        \/ \E p \in Paths, b \in Bodies : Receive(r, p, b)
        \/ \E c \in Completions : GptReturn(r, c)
        \/ \E stored \in BOOLEAN : DbReturn(r, stored)
        \/ \E o \in SendOutcomes : WaReturn(r, o)

Spec == Init /\ [][Next]_vars

\* One request, over every body and every model output.
NextOne ==
    \/ \E p \in Paths, b \in AllBodies : Receive(1, p, b)
    \/ \E c \in AllCompletions : GptReturn(1, c)
    \/ \E stored \in BOOLEAN : DbReturn(1, stored)
    \/ \E o \in SendOutcomes : WaReturn(1, o)

SpecOne == Init /\ [][NextOne]_vars

\* ------------------------------------------------------------------ properties

\* Request r has left the advisory step (or ended before it).
PastAdvice(r) == req[r].pc \in {"persist", "notify", "done"}

\* The request reached the advisory step with a normalized payload.
Normalized(r) == req[r].payload.t = "obj"

\* C1: every POST is acknowledged: a request that has ended returned
\* 200 {ok: true, gpt: <advisory>}; no exception left the handler.
C1_AlwaysAcknowledged ==
    \A r \in Req :
        req[r].pc = "done" => req[r].response = Acknowledge(req[r].g)

\* C2: normalization is total: whatever the body, once it has been received
\* the payload is a mapping with recv_ts_utc set, and a body that is not a
\* JSON object is wrapped under the key raw.
C2_NormalizationTotal ==
    \A r \in Req :
        req[r].pc # "idle" =>
            /\ req[r].payload.t = "obj"
            /\ HasKey(req[r].payload, "recv_ts_utc")
            /\ LET j == json_loads(decode(req[r].raw)) IN
               (IF j.ok THEN j.val.t # "obj" ELSE TRUE)
                   => HasKey(req[r].payload, "raw")

IsIn(v, strs) == v.t = "str" /\ "s" \in DOMAIN v /\ v.s \in strs
IsPositive(v) == v.t = "num" /\ v.n > 0

WellFormedAdvisory(g) ==
    /\ g.t = "obj"
    /\ IsIn(Get(g, "action", JNull), {"enter", "wait"})
    /\ IsIn(Get(g, "direction", JNull), {"long", "short"})
    /\ LET c == Get(g, "confidence", JNull) IN
       c.t = "num" /\ c.n % 10 = 0 /\ c.n >= 0 /\ c.n <= 1000
    /\ IsIn(Get(g, "risk_level", JNull), {"low", "mid", "high"})
    /\ IsPositive(Get(g, "sl_pct", JNull))
    /\ IsPositive(Get(g, "tp_pct", JNull))
    /\ Get(g, "message_cn", JNull).t = "str"
    /\ LET c == Get(g, "checklist", JNull) IN
       c.t = "list" /\ \A i \in DOMAIN c.l : c.l[i].t = "str"

\* C3: every advisory a request holds after the advisory step (the one put
\* in its response and its log record) has every field present and in its
\* domain, whatever the model returned.
C3_AdvisoryShape ==
    \A r \in Req :
        (PastAdvice(r) /\ Normalized(r) /\ req[r].response.status # 500)
            => WellFormedAdvisory(req[r].g)

\* The advisory call of r ended in one of the failures that call for the
\* Fallback Policy: no credential, an exception of the call, or model text
\* that is not a JSON object.
AdvisoryFellBack(r) ==
    \/ ~client
    \/ req[r].resp.kind \in {"raise", "none"}
    \/ /\ req[r].resp.kind = "content"
       /\ LET j == json_loads(req[r].resp.text) IN
          IF j.ok THEN j.val.t # "obj" ELSE TRUE

\* The direction the Fallback Policy derives from the payload's signal.
FallbackDirection(payload) ==
    LET v == Get(payload, "signal", JNull) IN
    IF IsIn(v, {"SHORT", "short", "Short"}) THEN "short" ELSE "long"

IsFallbackAdvisory(g, payload) ==
    /\ g.t = "obj"
    /\ Get(g, "action", JNull) = JStr("wait")
    /\ Get(g, "direction", JNull) = JStr(FallbackDirection(payload))
    /\ Get(g, "confidence", JNull) = JNum(0)
    /\ Get(g, "risk_level", JNull) = JStr("high")
    /\ Get(g, "sl_pct", JNull) = JNum(9)
    /\ Get(g, "tp_pct", JNull) = JNum(22)

\* C4: for every normalized payload, when the advisory call fell back the
\* request goes on, without an exception, with the Fallback Policy's
\* advisory for that payload and no error recorded.
C4_FallbackNeverRaises ==
    \A r \in Req :
        (PastAdvice(r) /\ Normalized(r) /\ AdvisoryFellBack(r)) =>
            /\ req[r].response.status # 500
            /\ req[r].error_text = ""
            /\ IsFallbackAdvisory(req[r].g, req[r].payload)

\* The documented default of each field the model may leave out.
FieldDefaults ==
    << <<"action", JStr("wait")>>, <<"confidence", JNum(0)>>,
       <<"risk_level", JStr("mid")>>, <<"sl_pct", JNum(9)>>,
       <<"tp_pct", JNum(25)>>, <<"message_cn", DefaultMessage>>,
       <<"checklist", DefaultChecklist>> >>

\* C5: when the model returned a JSON object, the advisory keeps every field
\* the object carried and has each missing field at its documented default,
\* for every payload.
C5_PartialSuccessPreserved ==
    \A r \in Req :
        (PastAdvice(r) /\ Normalized(r) /\ req[r].resp.kind = "content") =>
            LET j == json_loads(req[r].resp.text) IN
            (IF j.ok THEN j.val.t = "obj" ELSE FALSE) =>
                /\ req[r].g.t = "obj"
                /\ \A i \in DOMAIN j.val.o :
                       Get(req[r].g, j.val.o[i][1], JNull) = j.val.o[i][2]
                /\ \A i \in DOMAIN FieldDefaults :
                       ~HasKey(j.val, FieldDefaults[i][1]) =>
                           Get(req[r].g, FieldDefaults[i][1], JNull)
                               = FieldDefaults[i][2]

\* C6: the log record of a request whose advisory call raised (a Fallback
\* Advisory was substituted) has a non-empty error field.
C6_ErrorTextRecorded ==
    \A r \in Req :
        (req[r].rowid # 0 /\ req[r].resp.kind = "raise")
            => db[req[r].rowid].error # ""

\* The steps request b can take once whatever it awaits has ended.
StepOf(b) ==
    \/ \E stored \in BOOLEAN : DbReturn(b, stored)
    \/ \E o \in SendOutcomes : WaReturn(b, o)

\* C7: no request waits on another: while request a is in its advisory
\* call, every other request in flight can take its next step.
C7_NoRequestWaits ==
    \A a \in Req, b \in Req :
        (a # b /\ req[a].pc = "advise" /\ req[b].pc \in {"persist", "notify"})
            => ENABLED StepOf(b)

\* C8: with storage working there is one record per webhook call that has
\* passed the persistence step or ended, and a record once appended is
\* never changed.
C8_OneRecordPerCall ==
    /\ (\A r \in Req : req[r].dbres # "failed") =>
           Len(db) = Cardinality({r \in Req : req[r].pc \in {"notify", "done"}})
    /\ \A r \in Req :
           req[r].rowid # 0 =>
               req[r].rowid <= Len(db) /\ db[req[r].rowid] = Row(req[r])

\* C9: the notifier is tried only after the persistence step has ended, and
\* whatever the notifier did, the request answers 200 with its advisory and
\* its record is as it was inserted.
C9_NotifierIsolated ==
    \A r \in Req :
        /\ (req[r].pc = "notify" \/ req[r].wares # "none")
               => req[r].dbres # "none"
        /\ (req[r].pc = "done" /\ req[r].wares # "none") =>
               /\ req[r].response = Acknowledge(req[r].g)
               /\ req[r].dbres = "ok" =>
                      /\ req[r].rowid \in DOMAIN db
                      /\ db[req[r].rowid] = Row(req[r])
                      /\ db[req[r].rowid].gpt_json
                             = json_dumps(Get(req[r].response.body, "gpt", JNull))

\* C9 witness: a request whose record was stored and whose provider call
\* was refused has been acknowledged.
C9_Witness ==
    \E r \in Req :
        /\ req[r].pc = "done"
        /\ req[r].wares = "rejected"
        /\ req[r].dbres = "ok"
        /\ req[r].response.status = 200

\* C10 as stated: the raw text of the record, and the text wrapped under
\* raw, is the body exactly as received.
C10_RawTextUnmodified ==
    \A r \in Req :
        /\ req[r].rowid # 0 => db[req[r].rowid].raw_text = req[r].raw
        /\ (Normalized(r) /\ HasKey(req[r].payload, "raw")
                /\ "x" \in DOMAIN Get(req[r].payload, "raw", JNull))
               => Get(req[r].payload, "raw", JNull).x = req[r].raw

\* t is body with its undecodable bytes dropped and nothing but whitespace
\* removed from its two ends, all of it.
IsStrippedBody(t, body) ==
    LET clean == SelectSeq(body, NotBad) IN
    /\ \E i \in 0..Len(clean) :
           /\ i + Len(t) <= Len(clean)
           /\ \A k \in 1..Len(t) : t[k] = clean[i + k]
           /\ \A k \in 1..i : clean[k] = WS
           /\ \A k \in (i + Len(t) + 1)..Len(clean) : clean[k] = WS
    /\ t # <<>> => (t[1] # WS /\ t[Len(t)] # WS)

\* C10 amended: the raw text of the record, and the text wrapped under raw,
\* is the body decoded with undecodable bytes dropped and with its leading
\* and trailing whitespace stripped; what lies between is kept as received.
C10_RawTextStripped ==
    \A r \in Req :
        /\ req[r].rowid # 0 => IsStrippedBody(db[req[r].rowid].raw_text, req[r].raw)
        /\ (Normalized(r) /\ HasKey(req[r].payload, "raw")
                /\ "x" \in DOMAIN Get(req[r].payload, "raw", JNull))
               => IsStrippedBody(Get(req[r].payload, "raw", JNull).x, req[r].raw)

\* C10 witness: a body with whitespace on both ends was stored and wrapped.
C10_Witness ==
    \E r \in Req :
        /\ req[r].rowid # 0
        /\ Len(req[r].raw) >= 3
        /\ req[r].raw[1] = WS
        /\ req[r].raw[Len(req[r].raw)] = WS
        /\ HasKey(req[r].payload, "raw")
        /\ db[req[r].rowid].raw_text # req[r].raw

====
